---------------------------- MODULE Spec2Model ----------------------------
(***************************************************************************)
(* A model of rewrite.py: format detection, unit extraction, batching and  *)
(* the streaming rewrite orchestrator with its output sink.                *)
(*                                                                         *)
(* Text is modelled character by character: a string is a sequence of      *)
(* one-character strings, a document is a sequence of such lines.          *)
(***************************************************************************)
EXTENDS Integers, Sequences, FiniteSets, TLC

VARIABLES
  pc,               \* position of the running function
  lines,            \* the document lines consumed so far by a parser loop
  non_empty_lines,  \* detect_format: counter of non-empty lines
  verse_count,      \* detect_format: counter of verse-pattern lines
  result,           \* detect_format: the returned classification
  out,              \* parse_verses: the list of (label, text) pairs
  paragraphs,       \* parse_paragraphs: the paragraphs completed so far
  current,          \* parse_paragraphs: the stripped lines of the open paragraph
  batch,            \* build_verse_prompt: the (label, text) pairs to render
  user_prompt,      \* build_verse_prompt: the returned prompt
  items,            \* batches: the sequence being partitioned
  n,                \* batches: the batch size
  range_i,          \* batches: the current value of the range() iterator
  yielded,          \* batches: the slices yielded so far
  content_type,     \* main: the detected format
  content,          \* main: the extracted units, each by the length of its text
  batch_size,       \* main: the --batch argument
  chunks,           \* stream_rewrite: the batches the loop iterates over
  path,             \* stream_rewrite: the branch taken (verse, single, batched)
  i,                \* stream_rewrite: the 0-based index of the current batch
  processed,        \* stream_rewrite: the processed-unit counter
  sink,             \* the output file: what has been written to it, in order
  durable,          \* how much of the output file has been flushed
  requests,         \* the requests submitted to the service, in order
  inflight,         \* the number of response streams that are open
  events,           \* the number of events consumed from the current stream
  failed,           \* the batches whose try block raised
  received,         \* the non-empty fragments the streams have delivered
  io_errors         \* the number of file operations that raised

\* The variables of the line parsers, of the batch generator and of the run.
pvars == <<lines, non_empty_lines, verse_count, result, out, paragraphs,
           current, batch, user_prompt>>
bvars == <<items, n, range_i, yielded>>
ovars == <<content_type, content, batch_size, chunks, path, i, processed,
           sink, durable, requests, inflight, events, failed, received,
           io_errors>>

vars == <<pc, pvars, bvars, ovars>>

-----------------------------------------------------------------------------
(* Bounds of the model.                                                    *)

MaxDetectLines == 10
MaxLines == 4
MaxParaLines == 5
MaxPromptUnits == 3
MaxItems == 25
MaxBatchSize == 11
MaxDupItems == 3
MaxMainLines == 2
MaxVerseUnits == 3
MaxParaUnits == 6
MaxBatchArg == 2
MaxEvents == 2
MaxIoErrors == 1

-----------------------------------------------------------------------------
(* The values of the variables a function does not use.                    *)

ParsersIdle ==
  /\ lines = <<>> /\ out = <<>>
  /\ paragraphs = <<>> /\ current = <<>>
  /\ batch = <<>> /\ user_prompt = <<>>
  /\ non_empty_lines = 0 /\ verse_count = 0 /\ result = "none"

BatchesIdle == items = <<>> /\ n = 1 /\ range_i = 0 /\ yielded = <<>>

RunIdle ==
  /\ content_type = "none" /\ content = <<>> /\ batch_size = 1
  /\ chunks = <<>> /\ path = "none" /\ i = 0 /\ processed = 0
  /\ sink = <<>> /\ durable = 0 /\ requests = <<>> /\ inflight = 0
  /\ events = 0 /\ failed = {} /\ received = <<>> /\ io_errors = 0

-----------------------------------------------------------------------------
(* Characters and the character classes the regular expressions use.       *)

Digits == {"0", "1", "2", "3", "4", "5", "6", "7", "8", "9"}
Digits13 == {"1", "2", "3"}
Letters ==
  {"a", "b", "c", "d", "e", "f", "g", "h", "i", "j", "k", "l", "m",
   "n", "o", "p", "q", "r", "s", "t", "u", "v", "w", "x", "y", "z",
   "A", "B", "C", "D", "E", "F", "G", "H", "I", "J", "K", "L", "M",
   "N", "O", "P", "Q", "R", "S", "T", "U", "V", "W", "X", "Y", "Z"}
Whitespace == {" ", "\t", "\n", "\r", "\f"}

AllIn(s, a, b, class) == \A k \in a..b : s[k] \in class

Min(a, b) == IF a < b THEN a ELSE b

\* Python slicing s[a:b] for 0 <= a, with 0-based half-open bounds clamped
\* to the length of s.
Slice(s, a, b) == SubSeq(s, a + 1, Min(b, Len(s)))

\* str.strip(): drop the leading and the trailing whitespace.
strip(s) ==
  LET nonws == {k \in 1..Len(s) : s[k] \notin Whitespace}
  IN  IF nonws = {} THEN <<>>
      ELSE LET first == CHOOSE k \in nonws : \A j \in nonws : k <= j
               last  == CHOOSE k \in nonws : \A j \in nonws : k >= j
           IN  SubSeq(s, first, last)

RECURSIVE Join(_, _)
\* sep.join(parts)
Join(parts, sep) ==
  IF parts = <<>> THEN <<>>
  ELSE IF Len(parts) = 1 THEN parts[1]
  ELSE parts[1] \o sep \o Join(Tail(parts), sep)

\* The ends e of a match of \d+:\d+ that starts at position a of s.
RefEnds(s, a) ==
  {e \in a..Len(s) :
     \E c \in a+1..e-1 :
        /\ s[c] = ":"
        /\ AllIn(s, a, c - 1, Digits)
        /\ AllIn(s, c + 1, e, Digits)}

\* verse_pattern.match(s) with verse_pattern = ^\d+:\d+\s
verse_pattern_match(s) ==
  \E e \in RefEnds(s, 1) : e + 1 <= Len(s) /\ s[e + 1] \in Whitespace

\* LABEL_RE without its groups' contents: the ends p of a match of
\* [1-3]?\s?[A-Za-z][A-Za-z ]* at the start of s.
PrefixEnds(s) ==
  {p \in 1..Len(s) :
     \E a \in {0, 1}, b \in {0, 1} :
        /\ a + b + 1 <= p
        /\ a = 1 => s[1] \in Digits13
        /\ b = 1 => s[a + 1] \in Whitespace
        /\ s[a + b + 1] \in Letters
        /\ AllIn(s, a + b + 2, p, Letters \cup {" "})}

\* The ends e of the group `label` of LABEL_RE in s: an optional book prefix
\* and whitespace, then \d+:\d+, with whitespace after it.
LabelEnds(s) ==
  {e \in (RefEnds(s, 1) \cup
          UNION {RefEnds(s, q + 1) :
                   q \in {q \in 2..Len(s) :
                            \E p \in PrefixEnds(s) :
                               p < q /\ AllIn(s, p + 1, q, Whitespace)}}) :
     e + 1 <= Len(s) /\ s[e + 1] \in Whitespace}

\* The end of the group `text`: `.` matches no newline and `$` also matches
\* before a trailing one.
TextEnd(s) == IF s[Len(s)] = "\n" THEN Len(s) - 1 ELSE Len(s)

\* The starts t of the group `text` when `label` ends at e: \s+ before it,
\* .+ from it to the end.
TextStarts(s, e) ==
  {t \in e + 2..TextEnd(s) :
     /\ AllIn(s, e + 1, t - 1, Whitespace)
     /\ \A k \in t..TextEnd(s) : s[k] # "\n"}

\* LABEL_RE.match(s): whether it matches and its groups `label` and `text`.
\* \s+ is greedy, so `text` starts as late as it can.
LABEL_RE_match(s) ==
  LET ends == {e \in LabelEnds(s) : TextStarts(s, e) # {}}
  IN  IF ends = {} THEN [matched |-> FALSE, label |-> <<>>, text |-> <<>>]
      ELSE LET e == CHOOSE x \in ends : TRUE
               t == CHOOSE x \in TextStarts(s, e) :
                      \A y \in TextStarts(s, e) : y <= x
           IN  [matched |-> TRUE,
                label |-> SubSeq(s, 1, e),
                text |-> SubSeq(s, t, TextEnd(s))]

-----------------------------------------------------------------------------
(* Binary floating point: Python's int / int and the literal 0.3.          *)
(* A positive double is [e, m]: the value 0.m1 m2 ... m53 * 2^e with       *)
(* m1 = 1; zero has e = 0 and an all-zero mantissa.                        *)

MantissaBits == 53

FloatZero == [zero |-> TRUE, e |-> 0, m |-> [k \in 1..MantissaBits |-> 0]]

RECURSIVE ScaleUp(_, _, _)
\* The largest k with num * 2^k < den, returned with the scaled numerator.
ScaleUp(num, den, k) ==
  IF 2 * num < den THEN ScaleUp(2 * num, den, k + 1) ELSE <<num, k>>

RECURSIVE ScaleDown(_, _, _)
\* The least k with num < den * 2^k, returned with the scaled denominator.
ScaleDown(num, den, k) ==
  IF num < den THEN <<den, k>> ELSE ScaleDown(num, 2 * den, k + 1)

\* The first c bits of the binary expansion of r / den (0 <= r < den).
QuotientChunk(r, den, c) ==
  LET q == (r * 2^c) \div den
  IN  [j \in 1..c |-> (q \div 2^(c - j)) % 2]

RECURSIVE QuotientBits(_, _, _)
\* The first `count` bits of the binary expansion of r / den (0 <= r < den),
\* followed by the remainder left after them; eight bits are divided out at
\* a time.
QuotientBits(r, den, count) ==
  IF count = 0 THEN <<r>>
  ELSE LET c == Min(count, 8)
       IN  QuotientChunk(r, den, c)
             \o QuotientBits((r * 2^c) % den, den, count - c)

\* A bit sequence plus one; the leading element of the result is the carry.
Increment(bits) ==
  LET zeros == {k \in 1..Len(bits) : bits[k] = 0}
  IN  IF zeros = {} THEN <<1>> \o [k \in 1..Len(bits) |-> 0]
      ELSE LET z == CHOOSE k \in zeros : \A j \in zeros : j <= k
           IN  <<0>> \o [k \in 1..Len(bits) |->
                            IF k < z THEN bits[k] ELSE IF k = z THEN 1 ELSE 0]

\* a / b for integers a >= 0, b > 0: the quotient rounded to the nearest
\* double, ties to even.
TrueDiv(a, b) ==
  IF a = 0 THEN FloatZero
  ELSE
    LET up   == ScaleUp(a, b, 0)
        down == ScaleDown(a, b, 0)
        num  == IF a < b THEN up[1] ELSE a
        den  == IF a < b THEN b ELSE down[1]
        e    == IF a < b THEN 0 - up[2] ELSE down[2]
        q    == QuotientBits(num, den, MantissaBits)
        m    == SubSeq(q, 1, MantissaBits)
        r    == q[MantissaBits + 1]
        guard  == 2 * r >= den
        sticky == (IF guard THEN 2 * r - den ELSE 2 * r) # 0
        roundUp == guard /\ (sticky \/ m[MantissaBits] = 1)
        inc  == Increment(m)
    IN  IF ~roundUp THEN [zero |-> FALSE, e |-> e, m |-> m]
        ELSE IF inc[1] = 1
             THEN [zero |-> FALSE, e |-> e + 1,
                   m |-> [k \in 1..MantissaBits |-> IF k = 1 THEN 1 ELSE 0]]
             ELSE [zero |-> FALSE, e |-> e, m |-> Tail(inc)]

\* The literal 0.3: the double 0x3FD3333333333333.
Float_0_3 ==
  [zero |-> FALSE, e |-> -1,
   m |-> [k \in 1..MantissaBits |->
            IF k = 1 THEN 1 ELSE IF (k - 2) % 4 \in {2, 3} THEN 1 ELSE 0]]

\* x > y for non-negative doubles.
FloatGT(x, y) ==
  IF x.zero THEN FALSE
  ELSE IF y.zero THEN TRUE
  ELSE IF x.e # y.e THEN x.e > y.e
  ELSE \E k \in 1..MantissaBits :
          /\ x.m[k] > y.m[k]
          /\ \A j \in 1..k-1 : x.m[j] = y.m[j]

-----------------------------------------------------------------------------
(* detect_format                                                           *)

\* The lines the detection loop is fed with.
\* A whitespace-only line; an indented verse line; a bare reference, which
\* is not empty and has nothing after the reference once it is stripped.
DetectLineSet ==
  { <<" ", "\n">>,
    <<"\t", "1", "2", ":", "3", " ", "a", "\n">>,
    <<"1", ":", "1", "\n">> }

\* A comparison that also accepts a ratio of exactly 0.3.
VerseRatioAtLeast(v, total) ==
  total > 0 /\ ~FloatGT(Float_0_3, TrueDiv(v, total))

\* The comparison of the return statement.
VerseRatioExceeded(v, total) ==
  total > 0 /\ FloatGT(TrueDiv(v, total), Float_0_3)

\* The body of the loop of detect_format: the counters <<non_empty_lines,
\* verse_count>> after one more line.
DetectStep(counts, line) ==
  LET stripped == strip(line)
  IN  IF stripped = <<>> THEN counts
      ELSE IF verse_pattern_match(stripped)
           THEN <<counts[1] + 1, counts[2] + 1>>
           ELSE <<counts[1] + 1, counts[2]>>

RECURSIVE DetectCounts(_)
\* The counters after the loop over all the lines.
DetectCounts(ls) ==
  IF ls = <<>> THEN <<0, 0>>
  ELSE DetectStep(DetectCounts(SubSeq(ls, 1, Len(ls) - 1)), ls[Len(ls)])

\* detect_format(lines)
detect_format(ls) ==
  LET counts == DetectCounts(ls)
  IN  IF VerseRatioExceeded(counts[2], counts[1]) THEN "verse" ELSE "paragraph"

DetectInit ==
  /\ pc = "detect_loop"
  /\ lines = <<>>
  /\ non_empty_lines = 0
  /\ verse_count = 0
  /\ result = "none"
  /\ out = <<>>
  /\ paragraphs = <<>> /\ current = <<>>
  /\ batch = <<>> /\ user_prompt = <<>>
  /\ BatchesIdle /\ RunIdle

\* One iteration of the loop over the lines.
DetectLine ==
  /\ pc = "detect_loop"
  /\ Len(lines) < MaxDetectLines
  /\ \E line \in DetectLineSet :
       LET counts == DetectStep(<<non_empty_lines, verse_count>>, line)
       IN  /\ lines' = Append(lines, line)
           /\ non_empty_lines' = counts[1]
           /\ verse_count' = counts[2]
  /\ UNCHANGED <<pc, result, out, paragraphs, current, batch, user_prompt,
                 bvars, ovars>>

\* The end of the lines: the classification is returned.
DetectReturn ==
  /\ pc = "detect_loop"
  /\ result' = IF VerseRatioExceeded(verse_count, non_empty_lines)
               THEN "verse" ELSE "paragraph"
  /\ pc' = "detect_done"
  /\ UNCHANGED <<lines, non_empty_lines, verse_count, out, paragraphs,
                 current, batch, user_prompt,
                 bvars, ovars>>

DetectNext == DetectLine \/ DetectReturn

SpecDetect == DetectInit /\ [][DetectNext]_vars

\* The lines of a document with a character that is not whitespace.
NonEmptyLineIndexes ==
  {k \in 1..Len(lines) : \E j \in 1..Len(lines[k]) : lines[k][j] \notin Whitespace}

\* The lines whose content, leading whitespace aside, starts with digits, a
\* colon, digits and whitespace that more content follows.
VerseLineIndexes ==
  {k \in NonEmptyLineIndexes :
     LET s == lines[k]
     IN  \E a \in 1..Len(s), c \in 1..Len(s), e \in 1..Len(s) :
            /\ a < c /\ c < e /\ e < Len(s)
            /\ AllIn(s, 1, a - 1, Whitespace)
            /\ AllIn(s, a, c - 1, Digits)
            /\ s[c] = ":"
            /\ AllIn(s, c + 1, e, Digits)
            /\ s[e + 1] \in Whitespace
            /\ \E j \in e + 2..Len(s) : s[j] \notin Whitespace}

\* C9: detect_format returns 'verse' exactly when N > 0 and V / N > 0.30,
\* that is 10 * V > 3 * N, with N the number of non-empty lines and V the
\* number of those starting with digits:digits and whitespace; otherwise it
\* returns 'paragraph' (so for exactly 30%, for N = 0 and for V = 0).
C9_DetectThreshold ==
  pc = "detect_done" =>
    LET total == Cardinality(NonEmptyLineIndexes)
        v == Cardinality(VerseLineIndexes)
    IN  /\ result \in {"verse", "paragraph"}
        /\ result = "verse" <=> (total > 0 /\ 10 * v > 3 * total)

\* A document of ten non-empty lines, three of them verse lines, is
\* classified as paragraph.
C9_Witness ==
  /\ pc = "detect_done"
  /\ Cardinality(NonEmptyLineIndexes) = 10
  /\ Cardinality(VerseLineIndexes) = 3
  /\ result = "paragraph"

-----------------------------------------------------------------------------
(* parse_verses                                                            *)

\* The lines the extraction loops are fed with.
LineSet ==
  { <<"\n">>,
    <<" ", "\t", "\n">>,
    <<"1", ":", "1", " ", "a", "\n">>,
    <<"\t", "2", ":", "3", " ", " ", "b", " ", "c", " ", "\n">>,
    <<"a", " ", "1", ":", "1", " ", "b", "\n">>,
    <<"1", " ", "a", " ", "2", ":", "3", "\t", "d">>,
    <<"1", ":", "1", " ", " ", "\n">>,
    <<"c", "\n">>,
    <<" ", "d", " ", "e", "\n">> }

\* A loop body that opens a unit for a continuation line too.
VerseStepNoContinuation(o, line) ==
  LET s == strip(line)
  IN  IF s = <<>> THEN o
      ELSE LET m == LABEL_RE_match(s)
           IN  IF m.matched
               THEN Append(o, <<strip(m.label), strip(m.text)>>)
               ELSE Append(o, <<<<>>, s>>)

\* A loop body that matches the line as it is read, untrimmed.
VerseStepUnstripped(o, line) ==
  LET s == line
  IN  IF s = <<>> THEN o
      ELSE LET m == LABEL_RE_match(s)
           IN  IF m.matched
               THEN Append(o, <<strip(m.label), strip(m.text)>>)
               ELSE IF o # <<>>
                    THEN LET last_label == o[Len(o)][1]
                             last_text  == o[Len(o)][2]
                         IN  [o EXCEPT ![Len(o)] =
                                <<last_label, strip(last_text \o <<" ">> \o s)>>]
                    ELSE o

\* A loop body that appends a continuation line to the first unit.
VerseStepExtendFirst(o, line) ==
  LET s == strip(line)
  IN  IF s = <<>> THEN o
      ELSE LET m == LABEL_RE_match(s)
           IN  IF m.matched
               THEN Append(o, <<strip(m.label), strip(m.text)>>)
               ELSE IF o # <<>>
                    THEN [o EXCEPT ![1] =
                            <<o[1][1], strip(o[1][2] \o <<" ">> \o s)>>]
                    ELSE o

\* A loop body that keeps the lines before the first label line in a unit
\* with the reference 0:0.
VerseStepPrefaceUnit(o, line) ==
  LET s == strip(line)
  IN  IF s = <<>> THEN o
      ELSE LET m == LABEL_RE_match(s)
           IN  IF m.matched
               THEN Append(o, <<strip(m.label), strip(m.text)>>)
               ELSE IF o # <<>>
                    THEN LET last_label == o[Len(o)][1]
                             last_text  == o[Len(o)][2]
                         IN  [o EXCEPT ![Len(o)] =
                                <<last_label, strip(last_text \o <<" ">> \o s)>>]
                    ELSE <<<<<<"0", ":", "0">>, s>>>>

\* The body of the loop of parse_verses: the list after one more line.
VerseStep(o, line) ==
  LET s == strip(line)
  IN  IF s = <<>> THEN o
      ELSE LET m == LABEL_RE_match(s)
           IN  IF m.matched
               THEN Append(o, <<strip(m.label), strip(m.text)>>)
               ELSE IF o # <<>>
                    THEN LET last_label == o[Len(o)][1]
                             last_text  == o[Len(o)][2]
                         IN  [o EXCEPT ![Len(o)] =
                                <<last_label, strip(last_text \o <<" ">> \o s)>>]
                    ELSE o

RECURSIVE parse_verses(_)
\* parse_verses(lines)
parse_verses(ls) ==
  IF ls = <<>> THEN <<>>
  ELSE VerseStep(parse_verses(SubSeq(ls, 1, Len(ls) - 1)), ls[Len(ls)])

VersesInit ==
  /\ pc = "verses_loop"
  /\ lines = <<>>
  /\ out = <<>>
  /\ non_empty_lines = 0 /\ verse_count = 0 /\ result = "none"
  /\ paragraphs = <<>> /\ current = <<>>
  /\ batch = <<>> /\ user_prompt = <<>>
  /\ BatchesIdle /\ RunIdle

\* One iteration of the loop over the lines.
VersesLine ==
  /\ pc = "verses_loop"
  /\ Len(lines) < MaxLines
  /\ \E line \in LineSet :
       /\ lines' = Append(lines, line)
       /\ out' = VerseStep(out, line)
  /\ UNCHANGED <<pc, non_empty_lines, verse_count, result, paragraphs,
                 current, batch, user_prompt,
                 bvars, ovars>>

\* The end of the lines: the list is returned.
VersesReturn ==
  /\ pc = "verses_loop"
  /\ pc' = "verses_done"
  /\ UNCHANGED <<pvars, bvars, ovars>>

VersesNext == VersesLine \/ VersesReturn

SpecVerses == VersesInit /\ [][VersesNext]_vars

\* Whether a line, its surrounding whitespace aside, has the form of a
\* label line.
IsLabelLine(line) ==
  strip(line) # <<>> /\ LABEL_RE_match(strip(line)).matched

\* The match of the label pattern on each line the loop is fed with, its
\* surrounding whitespace aside.
LineMatch == [line \in LineSet |-> LABEL_RE_match(strip(line))]

\* The positions of the label lines of the document.
LabelLineIndexes ==
  {k \in 1..Len(lines) : strip(lines[k]) # <<>> /\ LineMatch[lines[k]].matched}

\* The j-th smallest element of a set of positions.
NthOf(positions, j) ==
  CHOOSE k \in positions : Cardinality({h \in positions : h <= k}) = j

IsPrefixOf(s, t) == Len(s) <= Len(t) /\ SubSeq(t, 1, Len(s)) = s

\* C10: parse_verses returns as many units as there are lines matching the
\* label pattern (their surrounding whitespace aside), in the order of their
\* label lines: the j-th unit has the label of the j-th label line and a text
\* that starts with that line's text. Blank and continuation lines open no
\* unit and repeated references stay separate units.
C10_UnitsAreLabelLines ==
  LET labelLines == LabelLineIndexes
  IN  /\ Len(out) = Cardinality(labelLines)
      /\ \A j \in 1..Len(out) :
           LET m == LineMatch[lines[NthOf(labelLines, j)]]
           IN  /\ out[j][1] = m.label
               /\ IsPrefixOf(m.text, out[j][2])

\* A document with a repeated reference, a blank line and a continuation
\* line after the first label line, fully parsed into two units.
C10_Witness ==
  /\ pc = "verses_done"
  /\ Len(lines) = 4
  /\ Len(out) = 2
  /\ out[1][1] = out[2][1]
  /\ \E k \in 1..Len(lines) : strip(lines[k]) = <<>>
  /\ \E k \in 2..Len(lines) : strip(lines[k]) # <<>> /\ ~IsLabelLine(lines[k])

\* Whether a string is digits, a colon and digits, and nothing else.
IsStrictReference(label) == Len(label) \in RefEnds(label, 1)

\* Whether a text has content and no whitespace around it.
IsTrimmedText(text) ==
  /\ text # <<>>
  /\ text[1] \notin Whitespace
  /\ text[Len(text)] \notin Whitespace

ContinuationLines(labelLines, p) ==
  {k \in p + 1..Len(lines) :
     /\ strip(lines[k]) # <<>>
     /\ \A q \in labelLines : q > p => k < q}

\* C15: a non-blank line that does not match the label pattern and comes
\* after a label line extends only the unit opened last: the text of the j-th
\* unit is the text of the j-th label line followed, joined by single spaces
\* and in document order, by the trimmed continuation lines up to the next
\* label line. Nothing of a continuation line is lost or reaches an earlier
\* unit.
C15_ContinuationExtendsLastUnit ==
  LET labelLines == LabelLineIndexes
  IN  /\ Len(out) = Cardinality(labelLines)
      /\ \A j \in 1..Len(out) :
           LET p == NthOf(labelLines, j)
               conts == ContinuationLines(labelLines, p)
               parts == <<LineMatch[lines[p]].text>> \o
                          [h \in 1..Cardinality(conts) |->
                             strip(lines[NthOf(conts, h)])]
           IN  out[j][2] = Join(parts, <<" ">>)

\* A parsed document of a label line, a second label line and two
\* continuation lines after it: the second unit has grown, the first has not.
C15_Witness ==
  /\ pc = "verses_done"
  /\ Len(lines) = 4
  /\ LabelLineIndexes = {1, 2}
  /\ strip(lines[3]) # <<>> /\ strip(lines[4]) # <<>>
  /\ Len(out) = 2
  /\ out[1][2] = LABEL_RE_match(strip(lines[1])).text
  /\ Len(out[2][2]) > Len(LABEL_RE_match(strip(lines[2])).text)

\* C18: the non-blank lines before the first label line are discarded: while
\* no label line has been read there is no unit, and the units of a document
\* are those of the document without the lines before its first label line,
\* so the first unit comes from the first label line and nothing of the
\* preface is in any text.
C18_PrefaceIsDiscarded ==
  LET labelLines == LabelLineIndexes
  IN  IF labelLines = {} THEN out = <<>>
      ELSE LET first == NthOf(labelLines, 1)
               m == LineMatch[lines[first]]
           IN  /\ out = parse_verses(SubSeq(lines, first, Len(lines)))
               /\ out[1][1] = m.label
               /\ IsPrefixOf(m.text, out[1][2])

\* A parsed document that starts with two preface lines, followed by a label
\* line and a continuation line: one unit.
C18_Witness ==
  /\ pc = "verses_done"
  /\ Len(lines) = 4
  /\ LabelLineIndexes = {3}
  /\ \A k \in 1..4 : strip(lines[k]) # <<>>
  /\ Len(out) = 1

-----------------------------------------------------------------------------
(* parse_paragraphs                                                        *)

\* A loop body that buffers the line as it is read, untrimmed.
ParaStepRaw(st, line) ==
  LET stripped == strip(line)
  IN  IF stripped = <<>>
      THEN IF st.current # <<>>
           THEN [paragraphs |-> Append(st.paragraphs, Join(st.current, <<" ">>)),
                 current |-> <<>>]
           ELSE st
      ELSE [st EXCEPT !.current = Append(st.current, line)]

\* The body of the loop of parse_paragraphs: the lists after one more line.
ParaStep(st, line) ==
  LET stripped == strip(line)
  IN  IF stripped = <<>>
      THEN IF st.current # <<>>
           THEN [paragraphs |-> Append(st.paragraphs, Join(st.current, <<" ">>)),
                 current |-> <<>>]
           ELSE st
      ELSE [st EXCEPT !.current = Append(st.current, stripped)]

RECURSIVE ParaLoop(_)
\* The lists after the loop over all the lines.
ParaLoop(ls) ==
  IF ls = <<>> THEN [paragraphs |-> <<>>, current |-> <<>>]
  ELSE ParaStep(ParaLoop(SubSeq(ls, 1, Len(ls) - 1)), ls[Len(ls)])

\* An end of the loop that drops the open paragraph.
ParaFlushNone(st) == st.paragraphs

\* What follows the loop: the last paragraph, if there is one, is added.
ParaFlush(st) ==
  IF st.current # <<>>
  THEN Append(st.paragraphs, Join(st.current, <<" ">>))
  ELSE st.paragraphs

\* parse_paragraphs(lines)
parse_paragraphs(ls) == ParaFlush(ParaLoop(ls))

\* The lines the paragraph loop is fed with: an empty line, a whitespace-only
\* line, a word, an indented line with inner and trailing whitespace, and a
\* line without a newline at its end.
ParaLineSet ==
  { <<"\n">>,
    <<" ", "\t", "\n">>,
    <<"a", "\n">>,
    <<" ", "b", " ", " ", "c", " ", "\n">>,
    <<"d">> }

ParasInit ==
  /\ pc = "paras_loop"
  /\ lines = <<>>
  /\ paragraphs = <<>>
  /\ current = <<>>
  /\ out = <<>> /\ batch = <<>> /\ user_prompt = <<>>
  /\ non_empty_lines = 0 /\ verse_count = 0 /\ result = "none"
  /\ BatchesIdle /\ RunIdle

\* One iteration of the loop over the lines.
ParasLine ==
  /\ pc = "paras_loop"
  /\ Len(lines) < MaxParaLines
  /\ \E line \in ParaLineSet :
       LET st == ParaStep([paragraphs |-> paragraphs, current |-> current], line)
       IN  /\ lines' = Append(lines, line)
           /\ paragraphs' = st.paragraphs
           /\ current' = st.current
  /\ UNCHANGED <<pc, non_empty_lines, verse_count, result, out, batch, user_prompt,
                 bvars, ovars>>

\* The end of the lines: the open paragraph is added and the list returned.
ParasReturn ==
  /\ pc = "paras_loop"
  /\ paragraphs' = ParaFlush([paragraphs |-> paragraphs, current |-> current])
  /\ pc' = "paras_done"
  /\ UNCHANGED <<lines, non_empty_lines, verse_count, result, out, current,
                 batch, user_prompt,
                 bvars, ovars>>

ParasNext == ParasLine \/ ParasReturn

SpecParagraphs == ParasInit /\ [][ParasNext]_vars

\* fh.readlines(): the lines of a text, each with the newline that ends it.
readlines(text) ==
  LET ends == {k \in 1..Len(text) : text[k] = "\n" \/ k = Len(text)}
  IN  [j \in 1..Cardinality(ends) |->
         LET e == NthOf(ends, j)
             before == {k \in ends : k < e}
             start == IF before = {} THEN 1
                      ELSE 1 + CHOOSE k \in before : \A h \in before : h <= k
         IN  SubSeq(text, start, e)]

\* Whether line k of the document has a character that is not whitespace.
NonBlank(k) == \E j \in 1..Len(lines[k]) : lines[k][j] \notin Whitespace

\* The first lines of the maximal runs of non-blank lines.
RunStarts ==
  {k \in 1..Len(lines) : NonBlank(k) /\ (k = 1 \/ ~NonBlank(k - 1))}

\* The last line of the run that starts at line a.
RunEnd(a) ==
  CHOOSE e \in a..Len(lines) :
     /\ \A k \in a..e : NonBlank(k)
     /\ e = Len(lines) \/ ~NonBlank(e + 1)

\* The trimmed lines of the run that starts at line a.
RunLines(a) == [k \in 1..RunEnd(a) - a + 1 |-> strip(lines[a + k - 1])]

\* C11: parse_paragraphs returns one unit per maximal run of consecutive
\* non-blank lines, in document order, each the trimmed lines of its run
\* joined by single spaces; no unit is empty and leading, trailing and
\* repeated blank lines produce none. While the loop runs, the list holds the
\* units of the runs a blank line has closed and the open run is buffered.
C11_UnitsAreRuns ==
  LET starts == RunStarts
      closed == {a \in starts : RunEnd(a) < Len(lines)}
      units(from) == [j \in 1..Cardinality(from) |->
                        Join(RunLines(NthOf(from, j)), <<" ">>)]
  IN  /\ \A j \in 1..Len(paragraphs) : paragraphs[j] # <<>>
      /\ pc = "paras_loop" =>
           /\ paragraphs = units(closed)
           /\ current = IF starts = closed THEN <<>>
                        ELSE RunLines(CHOOSE a \in starts : a \notin closed)
      /\ pc = "paras_done" => paragraphs = units(starts)

\* A parsed document of five lines that starts with a blank line, has two
\* blank lines in a row and ends inside a run: two units, the last flushed at
\* the end of the input.
C11_Witness ==
  /\ pc = "paras_done"
  /\ Len(lines) = 5
  /\ ~NonBlank(1) /\ NonBlank(2) /\ ~NonBlank(3) /\ ~NonBlank(4) /\ NonBlank(5)
  /\ Len(paragraphs) = 2

\* C12: joining the units parse_paragraphs returns with a blank line between
\* them and parsing the lines of that text again gives the same units, so
\* the same number of them.
C12_RoundTrip ==
  pc = "paras_done" =>
    LET again == parse_paragraphs(readlines(Join(paragraphs, <<"\n", "\n">>)))
    IN  /\ Len(again) = Len(paragraphs)
        /\ again = paragraphs

\* A parsed document with two units, the first made of two lines, one of
\* them with inner whitespace: the text they are joined to has three lines.
C12_Witness ==
  /\ pc = "paras_done"
  /\ Len(paragraphs) = 2
  /\ NonBlank(1) /\ NonBlank(2) /\ ~NonBlank(3)
  /\ \E k \in 1..2 : Len(strip(lines[k])) > 1
  /\ Len(readlines(Join(paragraphs, <<"\n", "\n">>))) = 3

-----------------------------------------------------------------------------
(* batches                                                                 *)

\* A slice that is one unit short.
BatchSliceShort(its, start, size) == Slice(its, start, start + size - 1)

\* The slice items[i:i+n] the generator yields.
BatchSlice(its, start, size) == Slice(its, start, start + size)

RECURSIVE batches_from(_, _, _)
\* What the generator yields from the range value `start` on.
batches_from(its, size, start) ==
  IF start >= Len(its) THEN <<>>
  ELSE <<BatchSlice(its, start, size)>>
         \o batches_from(its, size, start + size)

\* list(batches(items, n)) for n > 0.
batches(its, size) == batches_from(its, size, 0)

\* The unit sequences the generator is run on: distinct units, and short
\* sequences in which units repeat.
ItemSeqs ==
  {[k \in 1..len |-> k] : len \in 0..MaxItems}
    \cup UNION {[1..len -> {1, 2}] : len \in 0..MaxDupItems}

BatchesInit ==
  /\ pc = "batches_iter"
  /\ items \in ItemSeqs
  /\ n \in 1..MaxBatchSize
  /\ range_i = 0
  /\ yielded = <<>>
  /\ ParsersIdle /\ RunIdle

\* The next value of range(0, len(items), n) exists: its slice is yielded.
BatchesYield ==
  /\ pc = "batches_iter"
  /\ range_i < Len(items)
  /\ yielded' = Append(yielded, BatchSlice(items, range_i, n))
  /\ range_i' = range_i + n
  /\ UNCHANGED <<pc, items, n, pvars, ovars>>

\* The range is exhausted: the generator stops.
BatchesStop ==
  /\ pc = "batches_iter"
  /\ range_i >= Len(items)
  /\ pc' = "batches_done"
  /\ UNCHANGED <<bvars, pvars, ovars>>

BatchesNext == BatchesYield \/ BatchesStop

SpecBatches == BatchesInit /\ [][BatchesNext]_vars

RECURSIVE Flatten(_)
\* The concatenation of a sequence of sequences.
Flatten(ss) == IF ss = <<>> THEN <<>> ELSE Head(ss) \o Flatten(Tail(ss))

\* C2: for a positive batch size n, batches(items, n) yields non-empty
\* contiguous batches in order whose concatenation is the original sequence
\* (while it runs: the part of it consumed so far); every batch but the last
\* has exactly n units and the last has 1 to n; 25 units with n = 10 give
\* the sizes 10, 10, 5.
C2_BatchesPartition ==
  /\ Flatten(yielded) = SubSeq(items, 1, Min(range_i, Len(items)))
  /\ \A k \in 1..Len(yielded) :
       /\ Len(yielded[k]) >= 1
       /\ Len(yielded[k]) <= n
       /\ k < Len(yielded) => Len(yielded[k]) = n
  /\ pc = "batches_done" =>
       /\ Flatten(yielded) = items
       /\ (Len(items) = 25 /\ n = 10) =>
            [k \in 1..Len(yielded) |-> Len(yielded[k])] = <<10, 10, 5>>

\* The generator has run to its end on 25 units with n = 10 and yielded
\* three batches, the last of 5 units.
C2_Witness ==
  /\ pc = "batches_done"
  /\ Len(items) = 25
  /\ n = 10
  /\ Len(yielded) = 3
  /\ Len(yielded[3]) = 5

-----------------------------------------------------------------------------
(* build_verse_prompt                                                      *)

\* The first element of the list `lines` of build_verse_prompt.
PromptHeader ==
  <<
    "R", "e", "w", "r", "i", "t", "e", " ", "e", "a", "c", "h", " ",
    "v", "e", "r", "s", "e", ".", " ", "O", "u", "t", "p", "u", "t",
    " ", "f", "o", "r", "m", "a", "t", ":", " ", "v", "e", "r", "s",
    "e", "_", "n", "u", "m", "b", "e", "r", " ", "r", "e", "w", "r",
    "i", "t", "t", "e", "n", "_", "t", "e", "x", "t", "\n" >>

RECURSIVE DigitsEnd(_, _)
\* The end of the longest run of digits of s that starts at position a
\* (a - 1 when s has no digit there).
DigitsEnd(s, a) ==
  IF a <= Len(s) /\ s[a] \in Digits THEN DigitsEnd(s, a + 1) ELSE a - 1

RECURSIVE re_search_from(_, _)
\* re.search(r'\d+:\d+', s), trying the start positions from a on: the first
\* and the last position of the match, <<0, 0>> without one.
re_search_from(s, a) ==
  IF a > Len(s) THEN <<0, 0>>
  ELSE LET d == DigitsEnd(s, a)
           e == DigitsEnd(s, d + 2)
       IN  IF d >= a /\ d + 1 <= Len(s) /\ s[d + 1] = ":" /\ e >= d + 2
           THEN <<a, e>>
           ELSE re_search_from(s, a + 1)

\* A reference that is always the label as it is.
VerseRefWholeLabel(label) == label

\* verse_ref: the text of the first match in the label, or the label.
verse_ref(label) ==
  LET verse_match == re_search_from(label, 1)
  IN  IF verse_match # <<0, 0>>
      THEN SubSeq(label, verse_match[1], verse_match[2])
      ELSE label

\* f"VERSE: {verse_ref}\nTEXT: {text}\n---" for one (label, text) pair.
VerseBlock(unit) ==
  <<"V", "E", "R", "S", "E", ":", " ">> \o verse_ref(unit[1])
    \o <<"\n", "T", "E", "X", "T", ":", " ">> \o unit[2]
    \o <<"\n", "-", "-", "-">>

RECURSIVE VerseBlocks(_)
\* The elements the loop over the batch appends to `lines`.
VerseBlocks(units) ==
  IF units = <<>> THEN <<>>
  ELSE Append(VerseBlocks(SubSeq(units, 1, Len(units) - 1)),
              VerseBlock(units[Len(units)]))

\* build_verse_prompt(batch)
build_verse_prompt(units) ==
  Join(<<PromptHeader>> \o VerseBlocks(units), <<"\n">>)

\* The units prompts are built from: a bare reference, a label with a book
\* prefix, a label with two overlapping candidates, a label without a
\* reference, and a label whose first candidate is cut short.
PromptUnitSet ==
  { << <<"1", ":", "1">>, <<"a">> >>,
    << <<"a", " ", "1", "2", ":", "3">>, <<"b", " ", "c">> >>,
    << <<"1", ":", "2", ":", "3">>, <<"a">> >>,
    << <<"x">>, <<"-", "-", "-">> >>,
    << <<"4", ":", " ", "5", ":", "6", "7", " ", "8", ":", "9">>, <<"d">> >> }

PromptInit ==
  /\ pc = "prompt_loop"
  /\ batch \in UNION {[1..len -> PromptUnitSet] : len \in 0..MaxPromptUnits}
  /\ lines = <<PromptHeader>>
  /\ user_prompt = <<>>
  /\ out = <<>> /\ paragraphs = <<>> /\ current = <<>>
  /\ non_empty_lines = 0 /\ verse_count = 0 /\ result = "none"
  /\ BatchesIdle /\ RunIdle

\* One iteration of the loop over the batch: a block is appended.
PromptUnit ==
  /\ pc = "prompt_loop"
  /\ Len(lines) <= Len(batch)
  /\ lines' = Append(lines, VerseBlock(batch[Len(lines)]))
  /\ UNCHANGED <<pc, non_empty_lines, verse_count, result, out, paragraphs,
                 current, batch, user_prompt, bvars, ovars>>

\* The batch is exhausted: the lines are joined and returned.
PromptReturn ==
  /\ pc = "prompt_loop"
  /\ Len(lines) > Len(batch)
  /\ user_prompt' = Join(lines, <<"\n">>)
  /\ pc' = "prompt_done"
  /\ UNCHANGED <<lines, non_empty_lines, verse_count, result, out, paragraphs,
                 current, batch, bvars, ovars>>

PromptNext == PromptUnit \/ PromptReturn

SpecPrompt == PromptInit /\ [][PromptNext]_vars

\* The positions of a text at which a line starts with the given characters.
LineStartsWith(text, prefix) ==
  {k \in 1..Len(text) :
     /\ k = 1 \/ text[k - 1] = "\n"
     /\ k + Len(prefix) - 1 <= Len(text)
     /\ SubSeq(text, k, k + Len(prefix) - 1) = prefix}

\* The lines of a text that are the delimiter and nothing else.
DelimiterLines(text) ==
  {k \in LineStartsWith(text, <<"-", "-", "-">>) :
     k + 3 > Len(text) \/ text[k + 3] = "\n"}

\* The first digits:digits token of a label: it starts where the first
\* match of digits, a colon and digits can start and is the longest such
\* match from there. Without a token it is the label itself.
FirstReferenceOrLabel(label) ==
  LET starts == {a \in 1..Len(label) : RefEnds(label, a) # {}}
  IN  IF starts = {} THEN label
      ELSE LET a == CHOOSE x \in starts : \A y \in starts : x <= y
               e == CHOOSE x \in RefEnds(label, a) :
                      \A y \in RefEnds(label, a) : y <= x
           IN  SubSeq(label, a, e)

\* C17: build_verse_prompt emits one VERSE/TEXT block, ended by the
\* delimiter ---, for every unit of the batch, in batch order; the reference
\* of the block is the first digits:digits token of the unit's label, or the
\* label itself when it holds no such token: no unit is dropped. The
\* returned prompt has as many VERSE lines and delimiter lines as the batch
\* has units.
C17_OneBlockPerUnit ==
  /\ Len(lines) <= Len(batch) + 1
  /\ \A k \in 1..Len(lines) - 1 :
       lines[k + 1] =
         <<"V", "E", "R", "S", "E", ":", " ">>
           \o FirstReferenceOrLabel(batch[k][1])
           \o <<"\n", "T", "E", "X", "T", ":", " ">> \o batch[k][2]
           \o <<"\n", "-", "-", "-">>
  /\ pc = "prompt_done" =>
       /\ Len(lines) = Len(batch) + 1
       /\ user_prompt = Join(lines, <<"\n">>)
       /\ Cardinality(LineStartsWith(user_prompt,
                        <<"V", "E", "R", "S", "E", ":", " ">>)) = Len(batch)
       /\ Cardinality(LineStartsWith(user_prompt,
                        <<"T", "E", "X", "T", ":", " ">>)) = Len(batch)
       /\ Cardinality(DelimiterLines(user_prompt)) = Len(batch)

\* A prompt built from three units: a label without a reference, which is
\* used as it is, between a label with a book prefix and a bare reference.
C17_Witness ==
  /\ pc = "prompt_done"
  /\ Len(batch) = 3
  /\ batch[1][1][1] \in Letters
  /\ RefEnds(batch[1][1], 3) # {}
  /\ \A a \in 1..Len(batch[2][1]) : RefEnds(batch[2][1], a) = {}
  /\ IsStrictReference(batch[3][1])
  /\ Len(lines) = 4

-----------------------------------------------------------------------------
(* main and stream_rewrite                                                 *)

\* The thresholds and batch sizes of the paragraph branch, and the
\* characters per token of estimate_tokens.
SingleBatchTokens == 2000
LargeDocTokens == 4000
LargeDocBatch == 3
MediumDocBatch == 5
CharsPerToken == 4

\* What the output file holds: each write is one record, with the batch whose
\* iteration wrote it and, for a failure marker, the batch number its text
\* names (0: none).
OldContent == [kind |-> "old", batch |-> 0, named |-> 0, seq |-> 0]
Header == [kind |-> "header", batch |-> 0, named |-> 0, seq |-> 0]
Fragment(b, k) == [kind |-> "fragment", batch |-> b, named |-> 0, seq |-> k]
Separator(b) == [kind |-> "separator", batch |-> b, named |-> 0, seq |-> 0]

\* "[ERROR: Batch {i+1} skipped due to error]" of the batch loops.
BatchMarker(b) == [kind |-> "marker", batch |-> b, named |-> b, seq |-> 0]

\* "[ERROR: Processing failed]" of the single-batch branch.
SingleMarker == [kind |-> "marker", batch |-> 1, named |-> 0, seq |-> 0]

RECURSIVE Sum(_)
Sum(s) == IF s = <<>> THEN 0 ELSE Head(s) + Sum(Tail(s))

\* estimate_tokens("\n\n".join(content)), the units given by their lengths.
estimate_tokens(units) ==
  LET separators == IF Len(units) = 0 THEN 0 ELSE 2 * (Len(units) - 1)
  IN  (Sum(units) + separators) \div CharsPerToken

\* The branch stream_rewrite takes.
PathOf(ctype, units) ==
  IF ctype = "verse" THEN "verse"
  ELSE IF estimate_tokens(units) < SingleBatchTokens THEN "single"
  ELSE "batched"

\* A batch size that is already the small one at LargeDocTokens.
ParaBatchSizeInclusive(units) ==
  IF estimate_tokens(units) >= LargeDocTokens THEN LargeDocBatch
  ELSE MediumDocBatch

\* para_batch_size
para_batch_size(units) ==
  IF estimate_tokens(units) > LargeDocTokens THEN LargeDocBatch
  ELSE MediumDocBatch

\* The batches each branch submits: the single-batch branch submits the whole
\* content as one request, whatever it holds.
ChunksOf(ctype, units, size) ==
  IF PathOf(ctype, units) = "verse" THEN batches(units, size)
  ELSE IF PathOf(ctype, units) = "single" THEN <<units>>
  ELSE batches(units, para_batch_size(units))

\* The short documents main is run on, character by character.
MainLineSet ==
  { <<"\n">>,
    <<" ", "\t", "\n">>,
    <<"1", ":", "1", " ", "a", "\n">>,
    <<"c", " ", "d", "\n">> }

MainDocs == UNION {[1..len -> MainLineSet] : len \in 0..MaxMainLines}

\* The lengths, in characters, of the text "\n\n".join(content) at the
\* thresholds of the paragraph branch: the longest text estimated below
\* SingleBatchTokens and the shortest one not below it, the longest text
\* estimated at LargeDocTokens and the shortest one above it.
ThresholdChars ==
  { SingleBatchTokens * CharsPerToken - 1,
    SingleBatchTokens * CharsPerToken,
    LargeDocTokens * CharsPerToken + CharsPerToken - 1,
    (LargeDocTokens + 1) * CharsPerToken }

\* A paragraph content of `count` units of distinct lengths whose text, the
\* two-character separators included, has `chars` characters.
ParaContent(count, chars) ==
  [k \in 1..count |->
     IF k < count THEN k
     ELSE chars - 2 * (count - 1) - Sum([h \in 1..count - 1 |-> h])]

\* The long documents main is run on, given by the lengths of the texts of
\* their units: verse documents have at least one unit, paragraph documents
\* are at the thresholds.
LongContents(ctype) ==
  IF ctype = "verse"
  THEN {[k \in 1..count |-> 40 + k] : count \in 1..MaxVerseUnits}
  ELSE {ParaContent(count, chars) :
          count \in 1..MaxParaUnits, chars \in ThresholdChars}

Init ==
  /\ pc = "main"
  /\ sink \in {<<>>, <<OldContent>>}
  /\ durable = Len(sink)
  /\ content_type = "none" /\ content = <<>> /\ batch_size = 1
  /\ chunks = <<>> /\ path = "none" /\ i = 0 /\ processed = 0
  /\ requests = <<>> /\ inflight = 0
  /\ events = 0 /\ failed = {} /\ received = <<>> /\ io_errors = 0
  /\ ParsersIdle /\ BatchesIdle

\* main reads a short document, detects its format and extracts its units.
MainShortDocument ==
  /\ pc = "main"
  /\ \E doc \in MainDocs, size \in 1..MaxBatchArg :
       LET ctype == detect_format(doc)
           units == IF ctype = "verse" THEN parse_verses(doc)
                                       ELSE parse_paragraphs(doc)
       IN  /\ content_type' = ctype
           /\ content' = [k \in 1..Len(units) |->
                            IF ctype = "verse" THEN Len(units[k][2])
                                               ELSE Len(units[k])]
           /\ batch_size' = size
  /\ pc' = "header"
  /\ UNCHANGED <<chunks, path, i, processed, sink, durable, requests,
                 inflight, events, failed, io_errors, received,
                 pvars, bvars>>

\* main reads a long document.
MainLongDocument ==
  /\ pc = "main"
  /\ \E ctype \in {"verse", "paragraph"}, size \in 1..MaxBatchArg :
       \E units \in LongContents(ctype) :
          /\ content_type' = ctype
          /\ content' = units
          /\ batch_size' = size
  /\ pc' = "header"
  /\ UNCHANGED <<chunks, path, i, processed, sink, durable, requests,
                 inflight, events, failed, io_errors, received,
                 pvars, bvars>>

\* main creates the output file afresh and writes the header.
WriteHeader ==
  /\ pc = "header"
  /\ sink' = <<Header>>
  /\ durable' = 1
  /\ pc' = "open"
  /\ UNCHANGED <<content_type, content, batch_size, chunks, path, i,
                 processed, requests, inflight, events, failed, io_errors,
                 received, pvars, bvars>>

\* Creating the output file or writing the header raises: main ends with the
\* exception, the file untouched or already truncated.
WriteHeaderError ==
  /\ pc = "header"
  /\ io_errors < MaxIoErrors
  /\ sink' \in {sink, <<>>}
  /\ durable' = Len(sink')
  /\ io_errors' = io_errors + 1
  /\ pc' = "raised"
  /\ UNCHANGED <<content_type, content, batch_size, chunks, path, i,
                 processed, requests, inflight, events, failed, received,
                 pvars, bvars>>

\* The file is opened for writing, which empties it, instead of appending.
OpenTruncating ==
  /\ pc = "open"
  /\ sink' = <<>>
  /\ durable' = 0
  /\ path' = PathOf(content_type, content)
  /\ chunks' = ChunksOf(content_type, content, batch_size)
  /\ i' = 0
  /\ processed' = 0
  /\ pc' = IF PathOf(content_type, content) = "single" THEN "create" ELSE "next"
  /\ UNCHANGED <<content_type, content, batch_size, requests,
                 inflight, events, failed, io_errors, received,
                 pvars, bvars>>

\* stream_rewrite opens the file for appending and enters its branch.
OpenAppend ==
  /\ pc = "open"
  /\ path' = PathOf(content_type, content)
  /\ chunks' = ChunksOf(content_type, content, batch_size)
  /\ i' = 0
  /\ processed' = 0
  /\ pc' = IF PathOf(content_type, content) = "single" THEN "create" ELSE "next"
  /\ UNCHANGED <<content_type, content, batch_size, sink, durable, requests,
                 inflight, events, failed, io_errors, received,
                 pvars, bvars>>

\* Opening the file for appending raises.
OpenAppendError ==
  /\ pc = "open"
  /\ io_errors < MaxIoErrors
  /\ io_errors' = io_errors + 1
  /\ pc' = "raised"
  /\ UNCHANGED <<content_type, content, batch_size, chunks, path, i,
                 processed, sink, durable, requests, inflight, events, failed,
                 received, pvars, bvars>>

\* The loop over the batches takes its next batch.
NextBatch ==
  /\ pc = "next"
  /\ i < Len(chunks)
  /\ pc' = "create"
  /\ UNCHANGED <<ovars, pvars, bvars>>

\* The loop over the batches is exhausted.
LoopEnd ==
  /\ pc = "next"
  /\ i >= Len(chunks)
  /\ pc' = "close"
  /\ UNCHANGED <<ovars, pvars, bvars>>

\* client.chat.completions.create returns a stream.
CreateRequest ==
  /\ pc = "create"
  /\ requests' = Append(requests, [batch |-> i + 1, units |-> chunks[i + 1]])
  /\ inflight' = inflight + 1
  /\ events' = 0
  /\ pc' = "stream"
  /\ UNCHANGED <<content_type, content, batch_size, chunks, path, i,
                 processed, sink, durable, failed, io_errors, received,
                 pvars, bvars>>

\* client.chat.completions.create raises.
CreateRequestError ==
  /\ pc = "create"
  /\ requests' = Append(requests, [batch |-> i + 1, units |-> chunks[i + 1]])
  /\ failed' = failed \cup {i + 1}
  /\ pc' = "except"
  /\ UNCHANGED <<content_type, content, batch_size, chunks, path, i,
                 processed, sink, durable, inflight, events, io_errors,
                 received, pvars, bvars>>

\* A fragment that is written and left in the buffer of the file.
StreamDeltaBuffered ==
  /\ pc = "stream"
  /\ events < MaxEvents
  /\ events' = events + 1
  /\ received' = Append(received, Fragment(i + 1, events + 1))
  /\ sink' = Append(sink, Fragment(i + 1, events + 1))
  /\ UNCHANGED <<pc, content_type, content, batch_size, chunks, path, i,
                 processed, durable, requests, inflight, failed, io_errors,
                 pvars, bvars>>

\* The stream delivers an event with content: it is written and flushed.
StreamDelta ==
  /\ pc = "stream"
  /\ events < MaxEvents
  /\ events' = events + 1
  /\ received' = Append(received, Fragment(i + 1, events + 1))
  /\ sink' = Append(sink, Fragment(i + 1, events + 1))
  /\ durable' = Len(sink')
  /\ UNCHANGED <<pc, content_type, content, batch_size, chunks, path, i,
                 processed, requests, inflight, failed, io_errors, pvars, bvars>>

\* The stream delivers an event without content: nothing is written.
StreamEmptyDelta ==
  /\ pc = "stream"
  /\ events < MaxEvents
  /\ events' = events + 1
  /\ UNCHANGED <<pc, content_type, content, batch_size, chunks, path, i,
                 processed, sink, durable, requests, inflight, failed,
                 io_errors, received,
                 pvars, bvars>>

\* Writing a fragment raises: the stream is closed and the handler of the
\* batch's try block catches the exception.
StreamDeltaWriteError ==
  /\ pc = "stream"
  /\ events < MaxEvents
  /\ io_errors < MaxIoErrors
  /\ events' = events + 1
  /\ received' = Append(received, Fragment(i + 1, events + 1))
  /\ io_errors' = io_errors + 1
  /\ inflight' = inflight - 1
  /\ failed' = failed \cup {i + 1}
  /\ pc' = "except"
  /\ UNCHANGED <<content_type, content, batch_size, chunks, path, i,
                 processed, sink, durable, requests, pvars, bvars>>

\* A fragment is written but flushing it raises: caught in the same way.
StreamDeltaFlushError ==
  /\ pc = "stream"
  /\ events < MaxEvents
  /\ io_errors < MaxIoErrors
  /\ events' = events + 1
  /\ received' = Append(received, Fragment(i + 1, events + 1))
  /\ sink' = Append(sink, Fragment(i + 1, events + 1))
  /\ io_errors' = io_errors + 1
  /\ inflight' = inflight - 1
  /\ failed' = failed \cup {i + 1}
  /\ pc' = "except"
  /\ UNCHANGED <<content_type, content, batch_size, chunks, path, i,
                 processed, durable, requests, pvars, bvars>>

\* The stream raises and is left open.
StreamErrorLeavesOpen ==
  /\ pc = "stream"
  /\ failed' = failed \cup {i + 1}
  /\ pc' = "except"
  /\ UNCHANGED <<content_type, content, batch_size, chunks, path, i,
                 processed, sink, durable, requests, inflight, events,
                 io_errors, received,
                 pvars, bvars>>

\* The stream raises (transport or service error, malformed event).
StreamError ==
  /\ pc = "stream"
  /\ inflight' = inflight - 1
  /\ failed' = failed \cup {i + 1}
  /\ pc' = "except"
  /\ UNCHANGED <<content_type, content, batch_size, chunks, path, i,
                 processed, sink, durable, requests, events, io_errors,
                 received, pvars, bvars>>

\* A separator after every batch, the last one too.
SeparatorAlways == path = "batched"

\* Whether the batched branch writes a separator after batch i.
SeparatorDue == path = "batched" /\ i < Len(batches(content, para_batch_size(content))) - 1

\* The stream ends: the batch is complete. The batch loops count its units
\* and the batched branch writes the separator between batches.
StreamEnd ==
  /\ pc = "stream"
  /\ inflight' = inflight - 1
  /\ processed' = IF path = "single" THEN processed
                  ELSE processed + Len(chunks[i + 1])
  /\ sink' = IF SeparatorDue THEN Append(sink, Separator(i + 1)) ELSE sink
  /\ i' = i + 1
  /\ pc' = IF path = "single" THEN "close" ELSE "next"
  /\ UNCHANGED <<content_type, content, batch_size, chunks, path, durable,
                 requests, events, failed, io_errors, received,
                 pvars, bvars>>

\* The stream ends and writing the separator raises, inside the try block:
\* the units are already counted and the handler runs.
StreamEndSeparatorError ==
  /\ pc = "stream"
  /\ SeparatorDue
  /\ io_errors < MaxIoErrors
  /\ inflight' = inflight - 1
  /\ processed' = processed + Len(chunks[i + 1])
  /\ io_errors' = io_errors + 1
  /\ failed' = failed \cup {i + 1}
  /\ pc' = "except"
  /\ UNCHANGED <<content_type, content, batch_size, chunks, path, i, sink,
                 durable, requests, events, received,
                 pvars, bvars>>

\* A marker that never names the batch.
UnnamedMarker == [kind |-> "marker", batch |-> i + 1, named |-> 0, seq |-> 0]

\* The failure marker the handler of the current branch writes.
FailureMarker == IF path = "single" THEN SingleMarker ELSE BatchMarker(i + 1)

\* A handler that gives up the remaining batches after the marker.
HandleFailureAbort ==
  /\ pc = "except"
  /\ sink' = Append(sink, FailureMarker)
  /\ processed' = IF path = "single" THEN processed
                  ELSE processed + Len(chunks[i + 1])
  /\ i' = i + 1
  /\ pc' = "close"
  /\ UNCHANGED <<content_type, content, batch_size, chunks, path, durable,
                 requests, inflight, events, failed, io_errors, received,
                 pvars, bvars>>

\* A handler that submits the failed batch again, once.
HandleFailureRetry ==
  /\ pc = "except"
  /\ sink' = Append(sink, FailureMarker)
  /\ processed' = IF path = "single" THEN processed
                  ELSE processed + Len(chunks[i + 1])
  /\ i' = IF Len(requests) <= i + 1 THEN i ELSE i + 1
  /\ pc' = IF Len(requests) <= i + 1 THEN "create"
           ELSE IF path = "single" THEN "close" ELSE "next"
  /\ UNCHANGED <<content_type, content, batch_size, chunks, path, durable,
                 requests, inflight, events, failed, io_errors, received,
                 pvars, bvars>>

\* The except handler: the marker is written; the batch loops count the
\* batch's units and continue with the next batch.
HandleFailure ==
  /\ pc = "except"
  /\ sink' = Append(sink, FailureMarker)
  /\ processed' = IF path = "single" THEN processed
                  ELSE processed + Len(chunks[i + 1])
  /\ i' = i + 1
  /\ pc' = IF path = "single" THEN "close" ELSE "next"
  /\ UNCHANGED <<content_type, content, batch_size, chunks, path, durable,
                 requests, inflight, events, failed, io_errors, received,
                 pvars, bvars>>

\* Writing the marker raises: the exception leaves stream_rewrite.
HandleFailureError ==
  /\ pc = "except"
  /\ io_errors < MaxIoErrors
  /\ io_errors' = io_errors + 1
  /\ pc' = "raised"
  /\ UNCHANGED <<content_type, content, batch_size, chunks, path, i,
                 processed, sink, durable, requests, inflight, events, failed,
                 received, pvars, bvars>>

\* The file is closed, which flushes it, and stream_rewrite returns.
CloseFile ==
  /\ pc = "close"
  /\ durable' = Len(sink)
  /\ pc' = "done"
  /\ UNCHANGED <<content_type, content, batch_size, chunks, path, i,
                 processed, sink, requests, inflight, events, failed,
                 io_errors, received,
                 pvars, bvars>>

Next ==
  \/ MainShortDocument \/ MainLongDocument
  \/ WriteHeader \/ WriteHeaderError
  \/ OpenAppend \/ OpenAppendError
  \/ NextBatch \/ LoopEnd
  \/ CreateRequest \/ CreateRequestError
  \/ StreamDelta \/ StreamEmptyDelta
  \/ StreamDeltaWriteError \/ StreamDeltaFlushError
  \/ StreamError
  \/ StreamEnd \/ StreamEndSeparatorError
  \/ HandleFailure \/ HandleFailureError
  \/ CloseFile

Spec == Init /\ [][Next]_vars

-----------------------------------------------------------------------------
(* Properties of a run.                                                    *)

\* The batch numbers of the requests submitted so far, in order.
RequestedBatches == [k \in 1..Len(requests) |-> requests[k].batch]

\* The positions in the output file of the records of one kind.
SinkIndexes(kind) == {k \in 1..Len(sink) : sink[k].kind = kind}

\* The number of units in the first b batches.
UnitsUpTo(b) == Sum([k \in 1..b |-> Len(chunks[k])])

\* C1: in the batch loops of stream_rewrite, whatever batches fail at the
\* service (when the request is opened or in the middle of the stream), the
\* batches after a failed one are still attempted: between batches the
\* requests made are those of batches 1..i and the processed counter is the
\* number of units of those batches, failed ones included; when the run ends
\* every batch has been attempted and the counter is the number of units.
\* The claim is about failures of the service: in the batched paragraph loop
\* the runs in which a file operation raised are left out (in the verse loop
\* it holds of them too).
C1_FailuresDoNotStopTheRun ==
  (path = "verse" \/ (path = "batched" /\ io_errors = 0)) =>
    /\ pc \in {"next", "close", "done"} =>
         /\ RequestedBatches = [k \in 1..i |-> k]
         /\ processed = UnitsUpTo(i)
    /\ pc \in {"close", "done"} =>
         /\ RequestedBatches = [k \in 1..Len(chunks) |-> k]
         /\ processed = Len(content)

\* A run of three batches has ended: the first failed in the middle of its
\* stream, the second failed too, the third was still attempted and all the
\* units are counted.
C1_Witness ==
  /\ pc = "done"
  /\ path = "verse"
  /\ io_errors = 0
  /\ Len(chunks) = 3
  /\ failed = {1, 2}
  /\ \E k \in SinkIndexes("fragment") : sink[k].batch = 1
  /\ Len(requests) = 3
  /\ processed = Len(content)

\* C3: batches are submitted one at a time and in document order: at most
\* one response stream is open, a request is opened only when none is, the
\* requests made are those of batches 1, 2, 3, ... in this order, and in the
\* output file nothing of a batch follows anything of a later batch.
C3_OneBatchAtATime ==
  /\ inflight \in {0, 1}
  /\ pc = "create" => inflight = 0
  /\ pc = "stream" => inflight = 1 /\ Len(requests) = i + 1
  /\ RequestedBatches = [k \in 1..Len(requests) |-> k]
  /\ \A a \in 1..Len(sink) - 1 : sink[a].batch <= sink[a + 1].batch
  /\ \A k \in 1..Len(sink) : sink[k].batch <= Len(requests)

\* The stream of the second batch is open after the first batch failed and
\* left a fragment and its marker in the file; a fragment of the second batch
\* is already written.
C3_Witness ==
  /\ pc = "stream"
  /\ i = 1
  /\ inflight = 1
  /\ 1 \in failed
  /\ \E a \in SinkIndexes("fragment"), b \in SinkIndexes("marker"),
        c \in SinkIndexes("fragment") :
       sink[a].batch = 1 /\ sink[b].batch = 1 /\ sink[c].batch = 2

\* C4: no batch is submitted twice, whether its request succeeds, fails when
\* it is opened or fails in the middle of the stream; when the run ends every
\* batch has been submitted exactly once, so the number of requests is the
\* number of batches.
C4_NoRetry ==
  /\ \A a \in 1..Len(requests), b \in 1..Len(requests) :
       requests[a].batch = requests[b].batch => a = b
  /\ \A b \in failed : Cardinality({k \in 1..Len(requests) : requests[k].batch = b}) = 1
  /\ pc = "done" =>
       /\ Len(requests) = Len(chunks)
       /\ \A b \in 1..Len(chunks) : \E k \in 1..Len(requests) : requests[k].batch = b

\* A run of three batches has ended with three requests: the first batch
\* failed in the middle of its stream, the second failed with nothing
\* received, the third succeeded.
C4_Witness ==
  /\ pc = "done"
  /\ io_errors = 0
  /\ Len(chunks) = 3
  /\ failed = {1, 2}
  /\ \E k \in SinkIndexes("fragment") : sink[k].batch = 1
  /\ \A k \in SinkIndexes("fragment") : sink[k].batch # 2
  /\ Len(requests) = 3

\* The batches whose failure has been handled to the end.
HandledFailures == {b \in failed : b <= i}

\* The marker of batch b is in its place: after the fragments of b and before
\* everything of the later batches, and b has no other marker.
MarkerInPlace(b, named) ==
  LET markers == {k \in 1..Len(sink) :
                    sink[k].kind = "marker" /\ sink[k].batch = b}
  IN  /\ Cardinality(markers) = 1
      /\ \A m \in markers :
           /\ sink[m].named = named
           /\ \A k \in 1..Len(sink) :
                /\ (sink[k].kind = "fragment" /\ sink[k].batch = b) => k < m
                /\ sink[k].batch > b => k > m

\* C5 as stated: on every branch a failed batch gets exactly one marker that
\* names its index, after its fragments and before the next batch's content,
\* and a batch that does not fail gets none.
C5_MarkerNamesBatchOnEveryPath ==
  /\ \A b \in HandledFailures : MarkerInPlace(b, b)
  /\ \A k \in SinkIndexes("marker") : sink[k].batch \in failed

\* C5 as amended: a failed batch whose handler has run gets exactly one
\* marker, after its fragments and before the next batch's content; in the
\* verse and batched paragraph loops the marker names the batch's 1-based
\* index, in the single-batch paragraph branch it names no index; a batch
\* that does not fail gets no marker.
C5_OneMarkerPerFailedBatch ==
  /\ \A b \in HandledFailures :
       MarkerInPlace(b, IF path = "single" THEN 0 ELSE b)
  /\ \A k \in SinkIndexes("marker") : sink[k].batch \in failed

\* The second of three verse batches failed after a fragment: its marker,
\* naming batch 2, lies between that fragment and a fragment of batch 3, and
\* the first batch, which did not fail, has none.
C5_Witness ==
  /\ path = "verse"
  /\ failed = {2}
  /\ i >= 2
  /\ \E a \in SinkIndexes("fragment"), m \in SinkIndexes("marker"),
        c \in SinkIndexes("fragment") :
       /\ a < m /\ m < c
       /\ sink[a].batch = 2 /\ sink[m].named = 2 /\ sink[c].batch = 3
  /\ \E k \in SinkIndexes("fragment") : sink[k].batch = 1

\* The states of a run after the header has been written.
PastHeader == {"open", "next", "create", "stream", "except", "close", "done"}

HeaderWritten(file) ==
  /\ file # <<>>
  /\ file[1] = Header
  /\ \A k \in 2..Len(file) : file[k].kind \notin {"header", "old"}

\* C6: the output file is append-only with the header written once: once
\* main has created the file afresh, the file starts with the header, holds
\* no second header and nothing older, and every step leaves what the file
\* held as a prefix of what it holds next (the flushed part included).
C6_SinkIsAppendOnly ==
  [][ /\ pc' \in PastHeader => HeaderWritten(sink')
      /\ HeaderWritten(sink) =>
           /\ HeaderWritten(sink')
           /\ Len(sink) <= Len(sink')
           /\ SubSeq(sink', 1, Len(sink)) = sink
           /\ durable <= durable'
           /\ durable' <= Len(sink') ]_vars

\* A finished run over a file that held older content: the file is the
\* header followed by a fragment, a separator and a marker.
C6_Witness ==
  /\ pc = "done"
  /\ sink[1] = Header
  /\ SinkIndexes("old") = {}
  /\ SinkIndexes("fragment") # {}
  /\ SinkIndexes("separator") # {}
  /\ SinkIndexes("marker") # {}

\* C7 as stated: a file operation that raises ends the run with the
\* exception; it is not handled as the failure of a batch.
C7_FileErrorIsFatal == io_errors > 0 => pc = "raised"

\* C8 as stated: for a document without units no request is submitted and
\* nothing but the header is written.
C8_EmptyDocumentSubmitsNothing ==
  (pc # "main" /\ content = <<>>) =>
    /\ requests = <<>>
    /\ SinkIndexes("fragment") = {}
    /\ SinkIndexes("marker") = {}

\* The fragments in the flushed part of the output file, in the order they
\* were written.
IsFragment(record) == record.kind = "fragment"
DurableFragments == SelectSeq(SubSeq(sink, 1, durable), IsFragment)

\* C14: every non-empty fragment a stream delivers is written and flushed
\* before the next event of the stream is consumed: as long as no file
\* operation has raised, at every point of the run the flushed part of the
\* output file holds the header, once it is written, and after it all the
\* fragments received so far, those of the earlier batches and of the batch
\* being streamed, in the order of their arrival.
C14_ReceivedFragmentsAreDurable ==
  io_errors = 0 =>
    /\ pc \in PastHeader => durable >= 1 /\ sink[1] = Header
    /\ DurableFragments = received
    /\ \A k \in SinkIndexes("fragment") : k <= durable

\* The second batch is being streamed after the first one failed in the
\* middle of its stream: a fragment of each has been received and both are in
\* the flushed part of the file, the marker of the first batch between them.
C14_Witness ==
  /\ pc = "stream"
  /\ io_errors = 0
  /\ i = 1
  /\ failed = {1}
  /\ events >= 1
  /\ durable = Len(sink)
  /\ \E a \in 1..Len(received), b \in 1..Len(received) :
       a < b /\ received[a].batch = 1 /\ received[b].batch = 2
  /\ \E m \in SinkIndexes("marker") : m < durable

\* The separators of one batch in the output file.
SeparatorsOf(b) == {k \in SinkIndexes("separator") : sink[k].batch = b}

\* C19: in the batched paragraph loop a separator is written after a batch
\* exactly when the batch completed without failure and is not the last one:
\* a finished batch has one separator, after everything of the batches up to
\* it and before everything of the later ones, if it did not fail and batches
\* follow it, and none otherwise; the batch being processed has none yet; a
\* run of N batches without failure ends with N - 1 separators. The other
\* branches write no separator.
C19_SeparatorBetweenCompletedBatches ==
  /\ path # "batched" => SinkIndexes("separator") = {}
  /\ path = "batched" =>
       /\ \A k \in SinkIndexes("separator") : sink[k].batch \in 1..i
       /\ \A b \in 1..i :
            IF b \notin failed /\ b < Len(chunks)
            THEN /\ Cardinality(SeparatorsOf(b)) = 1
                 /\ \A k \in SeparatorsOf(b), h \in 1..Len(sink) :
                      /\ (sink[h].batch <= b /\ h # k) => h < k
                      /\ sink[h].batch > b => h > k
            ELSE SeparatorsOf(b) = {}
       /\ (pc = "done" /\ failed = {}) =>
            Cardinality(SinkIndexes("separator")) = Len(chunks) - 1

\* A finished run of two paragraph batches without failure: one separator,
\* between a fragment of the first batch and a fragment of the second, and
\* the file does not end with a separator.
C19_Witness ==
  /\ pc = "done"
  /\ path = "batched"
  /\ Len(chunks) = 2
  /\ failed = {}
  /\ Cardinality(SinkIndexes("separator")) = 1
  /\ \E a \in SinkIndexes("fragment"), k \in SinkIndexes("separator"),
        c \in SinkIndexes("fragment") :
       a < k /\ k < c /\ sink[a].batch = 1 /\ sink[c].batch = 2
  /\ sink[Len(sink)].kind = "fragment"

\* The number of characters of the units joined by a blank line.
JoinedLength(units) ==
  Sum(units) + (IF units = <<>> THEN 0 ELSE 2 * (Len(units) - 1))

\* The contiguous batches of `size` units of a unit sequence.
ContiguousBatches(units, size) ==
  [k \in 1..(Len(units) + size - 1) \div size |->
     SubSeq(units, (k - 1) * size + 1, Min(k * size, Len(units)))]

\* C16: for paragraph content the requests depend only on the estimate
\* E = floor(len(units joined by a blank line) / 4), not on the --batch
\* argument: E < 2000 gives one request with all the units, 2000 <= E <= 4000
\* contiguous batches of 5 units, E > 4000 contiguous batches of 3 units; the
\* k-th request made is the k-th of these batches, and when the run ends all
\* of them have been submitted, so their concatenation is the unit sequence.
C16_ParagraphBatchingByEstimate ==
  (content_type = "paragraph" /\ path # "none") =>
    LET E == JoinedLength(content) \div 4
        expected == IF E < 2000 THEN <<content>>
                    ELSE IF E <= 4000 THEN ContiguousBatches(content, 5)
                    ELSE ContiguousBatches(content, 3)
    IN  /\ Len(requests) <= Len(expected)
        /\ \A k \in 1..Len(requests) :
             requests[k].batch = k /\ requests[k].units = expected[k]
        /\ pc = "done" =>
             /\ Len(requests) = Len(expected)
             /\ Flatten([k \in 1..Len(requests) |-> requests[k].units]) = content

\* A finished run on six paragraphs whose estimate is exactly 4000 tokens,
\* with --batch 1: two requests, of five units and of one.
C16_Witness ==
  /\ pc = "done"
  /\ content_type = "paragraph"
  /\ Len(content) = 6
  /\ JoinedLength(content) \div 4 = 4000
  /\ batch_size = 1
  /\ Len(requests) = 2
  /\ Len(requests[1].units) = 5
  /\ Len(requests[2].units) = 1

=============================================================================
